---- MODULE Spec2Model ----
(***************************************************************************)
(* Model of pyathena/sqlalchemy_athena.py: the Athena DDL compiler         *)
(* (AthenaTypeCompiler, AthenaDDLCompiler) compiling CREATE EXTERNAL TABLE *)
(* statements from caller-built table descriptors (Spec), the reflection   *)
(* methods of AthenaDialect called against a remote catalog, with the      *)
(* info_cache of each unit of work (SpecReflect), and the dialect's        *)
(* helpers for type strings and error texts (SpecHelpers).                 *)
(*                                                                         *)
(* Representation.  A Python str is a sequence of fragments (TLA+ strings).*)
(* Every str the code inspects or rewrites character by character          *)
(* (comments, locations, storage formats, codecs) is held one character    *)
(* per fragment; keywords and dictionary keys are single fragments.        *)
(* An optional value is a set with at most one element: {} is None.        *)
(* A dict is the sequence of its <<key, value>> items in insertion order.  *)
(* The SQL text is kept as the sequence of its clauses, one record per     *)
(* `text +=` of visit_create_table / post_create_table.                    *)
(***************************************************************************)
EXTENDS Integers, Sequences, FiniteSets, TLC

VARIABLES
    table,            \* the Table descriptor handed to the compiler (caller-owned)
    double_percents,  \* dialect.identifier_preparer._double_percents
    calls,            \* log of visit_create_table calls: descriptor passed, outcome
    catalog,          \* the remote data catalog: per schema, the pages of its listing
    info_caches,      \* the info_cache dict of each unit of work
    fetches,          \* remote fetches made so far, counted per unit of work and key
    last,             \* the last call of a dialect method: arguments, outcome, requests
    ncalls,           \* number of reflection calls made
    open_cursors      \* number of cursors of the connection that are not closed

vars == <<table, double_percents, calls, catalog, info_caches, fetches, last, ncalls,
          open_cursors>>

ddl_vars == <<table, double_percents, calls>>
reflection_vars == <<catalog, info_caches, fetches, last, ncalls, open_cursors>>

------------------------------------------------------------------------------
(* Bounds of the model *)

MaxCols == 2
MaxCompiles == 2
MaxCommentLen == 3
MaxReflectCalls == 2
MaxSuffixLen == 3

------------------------------------------------------------------------------
(* Python values *)

None == {}
Some(x) == {x}
Val(o) == CHOOSE x \in o : TRUE

\* bool(o) for an optional str or dict, and for an optional int
Truthy(o) == o # None /\ Val(o) # <<>>
TruthyInt(o) == o # None /\ Val(o) # 0

\* str(o) as an f-string formats it
Format(o) == IF o = None THEN <<"N", "o", "n", "e">> ELSE Val(o)

Uppers == <<"A","B","C","D","E","F","G","H","I","J","K","L","M",
            "N","O","P","Q","R","S","T","U","V","W","X","Y","Z">>
Lowers == <<"a","b","c","d","e","f","g","h","i","j","k","l","m",
            "n","o","p","q","r","s","t","u","v","w","x","y","z">>

LowerChar(c) ==
    IF \E i \in 1..26 : Uppers[i] = c
    THEN Lowers[CHOOSE i \in 1..26 : Uppers[i] = c] ELSE c

UpperChar(c) ==
    IF \E i \in 1..26 : Lowers[i] = c
    THEN Uppers[CHOOSE i \in 1..26 : Lowers[i] = c] ELSE c

\* Mutant: the codec left in the caller's case
UpperUnchanged(s) == s

\* str.lower() / str.upper()
Lower(s) == [i \in 1..Len(s) |-> LowerChar(s[i])]
Upper(s) == [i \in 1..Len(s) |-> UpperChar(s[i])]

\* str.replace(old, new) for a one-character old
RECURSIVE Replace(_, _, _)
Replace(s, old, new) ==
    IF s = <<>> THEN <<>>
    ELSE (IF Head(s) = old THEN new ELSE <<Head(s)>>) \o Replace(Tail(s), old, new)

Digits == <<"0","1","2","3","4","5","6","7","8","9">>

\* "%d" / "%s" of a non-negative int
RECURSIVE IntStr(_)
IntStr(n) ==
    IF n < 10 THEN <<Digits[n + 1]>>
    ELSE IntStr(n \div 10) \o <<Digits[(n % 10) + 1]>>

\* dict: key lookup, item assignment (an existing key keeps its position)
DictKeys(d) == {d[i][1] : i \in 1..Len(d)}
\* Mutant: the assigned key moves to the end of the dict
DictSetMoveLast(d, k, v) == SelectSeq(d, LAMBDA e : e[1] # k) \o <<<<k, v>>>>

DictSetInPlace(d, k, v) == [i \in 1..Len(d) |-> IF d[i][1] = k THEN <<k, v>> ELSE d[i]]
\* Mutant: every assignment adds an item
DictSetAlwaysAppend(d, k, v) == Append(d, <<k, v>>)

DictSet(d, k, v) ==
    IF k \in DictKeys(d) THEN DictSetInPlace(d, k, v) ELSE Append(d, <<k, v>>)

------------------------------------------------------------------------------
(* Errors and results *)

CompileError(msg, cause) == [type |-> "CompileError", msg |-> msg, cause |-> cause]
KeyError(key) == [type |-> "KeyError", msg |-> key, cause |-> None]

Ok(v) == [ok |-> TRUE, value |-> v, err |-> None]
Raise(e) == [ok |-> FALSE, value |-> <<>>, err |-> Some(e)]

------------------------------------------------------------------------------
(* AthenaTypeCompiler.  A type is [kind, length, precision, scale]; column  *)
(* is the type_expression keyword argument: Some(column) in a column        *)
(* definition, None otherwise.                                              *)

SqlType(kind, length) == [kind |-> kind, length |-> length, precision |-> None, scale |-> None]

\* GenericTypeCompiler._render_string_type: the keyword, "(length)" when a length is set
render_string_type(type_, name) ==
    IF TruthyInt(type_.length)
    THEN <<name, "(">> \o IntStr(Val(type_.length)) \o <<")">>
    ELSE <<name>>

NoLengthMessage(column) ==
    <<"Column \"">> \o Val(column).name
        \o <<"\" is of type \"String\" but has no length. ",
             "Athena does not support \"String\" (SQL type VARCHAR) without length. ",
             "You must either provide one or use the type \"Text\" (SQL type STRING)">>

visit_CHAR(type_, column) == Ok(render_string_type(type_, "CHAR"))

visit_NCHAR(type_, column) == Ok(render_string_type(type_, "CHAR"))

visit_VARCHAR(type_, column) ==
    IF column # None /\ ~TruthyInt(type_.length)
    THEN Raise(CompileError(NoLengthMessage(column), None))
    ELSE Ok(render_string_type(type_, "VARCHAR"))

visit_NVARCHAR(type_, column) ==
    IF column # None /\ ~TruthyInt(type_.length)
    THEN Raise(CompileError(NoLengthMessage(column), None))
    ELSE Ok(render_string_type(type_, "VARCHAR"))

\* Mutant: the scale is left out of the rendered type
visit_DECIMAL_without_scale(type_, column) ==
    IF type_.precision = None THEN Ok(<<"DECIMAL">>)
    ELSE Ok(<<"DECIMAL", "(">> \o IntStr(Val(type_.precision)) \o <<")">>)

visit_DECIMAL(type_, column) ==
    IF type_.precision = None THEN Ok(<<"DECIMAL">>)
    ELSE IF type_.scale = None
    THEN Ok(<<"DECIMAL", "(">> \o IntStr(Val(type_.precision)) \o <<")">>)
    ELSE Ok(<<"DECIMAL", "(">> \o IntStr(Val(type_.precision)) \o <<",", " ">>
                \o IntStr(Val(type_.scale)) \o <<")">>)

visit_INTEGER(type_, column) == IF column # None THEN Ok(<<"INT">>) ELSE Ok(<<"INTEGER">>)

visit_TIME(type_, column) ==
    Raise(CompileError(<<"Data type ", type_.kind, " is not supported">>, None))

\* type_compiler.process(type_, type_expression=column): dispatch on the type's visit name
TypeProcess(type_, column) ==
    CASE type_.kind = "REAL" -> Ok(<<"DOUBLE">>)
      [] type_.kind \in {"NUMERIC", "DECIMAL"} -> visit_DECIMAL(type_, column)
      [] type_.kind = "INTEGER" -> visit_INTEGER(type_, column)
      [] type_.kind = "SMALLINT" -> Ok(<<"SMALLINT">>)
      [] type_.kind = "BIGINT" -> Ok(<<"BIGINT">>)
      [] type_.kind \in {"TIMESTAMP", "DATETIME"} -> Ok(<<"TIMESTAMP">>)
      [] type_.kind = "DATE" -> Ok(<<"DATE">>)
      [] type_.kind = "TIME" -> visit_TIME(type_, column)
      [] type_.kind \in {"CLOB", "NCLOB", "BLOB", "BINARY", "VARBINARY"} -> Ok(<<"BINARY">>)
      [] type_.kind = "CHAR" -> visit_CHAR(type_, column)
      [] type_.kind = "NCHAR" -> visit_NCHAR(type_, column)
      [] type_.kind = "VARCHAR" -> visit_VARCHAR(type_, column)
      [] type_.kind = "NVARCHAR" -> visit_NVARCHAR(type_, column)
      [] type_.kind = "TEXT" -> Ok(<<"STRING">>)
      [] type_.kind = "BOOLEAN" -> Ok(<<"BOOLEAN">>)

------------------------------------------------------------------------------
(* AthenaDDLCompiler.  A column is [name, type, partition, system, comment]; *)
(* a table is [name, schema, comment, columns, bind, opts].  The identifier  *)
(* preparer's quoting (format_table, format_column) and column constraints   *)
(* are sqlalchemy's and are left out: names are rendered as they are.        *)

\* One clause of the statement text: the keyword that opens it, and what follows it
Clause(kw, val, specs, props) == [kw |-> kw, val |-> val, specs |-> specs, props |-> props]

\* Mutant: the quotes escaped before the backslashes are doubled
escape_comment_quote_first(value, dp) ==
    LET v1 == Replace(value, "'", <<"\\", "'">>)
        v2 == Replace(v1, "\\", <<"\\", "\\">>)
        v3 == IF dp THEN Replace(v2, "%", <<"%", "%">>) ELSE v2
    IN  <<"'">> \o v3 \o <<"'">>

\* Mutant: the backslashes of the comment are left as they are
escape_comment_backslash_kept(value, dp) ==
    LET v2 == Replace(value, "'", <<"\\", "'">>)
        v3 == IF dp THEN Replace(v2, "%", <<"%", "%">>) ELSE v2
    IN  <<"'">> \o v3 \o <<"'">>

escape_comment(value, dp) ==
    LET v1 == Replace(value, "\\", <<"\\", "\\">>)
        v2 == Replace(v1, "'", <<"\\", "'">>)
        v3 == IF dp THEN Replace(v2, "%", <<"%", "%">>) ELSE v2
    IN  <<"'">> \o v3 \o <<"'">>

\* colspec: the column name, the rendered type, and the COMMENT suffix ("" without one)
get_column_specification(column, dp) ==
    LET type_ == TypeProcess(column.type, Some(column))
    IN  IF ~type_.ok THEN type_
        ELSE Ok([name |-> column.name,
                 type |-> type_.value,
                 comment |-> IF Truthy(column.comment)
                             THEN <<" COMMENT ">> \o escape_comment(Val(column.comment), dp)
                             ELSE <<>>])

\* self.process(create_column), DDLCompiler.visit_create_column: None for a system
\* column, the column specification otherwise
visit_create_column(column, dp) ==
    IF column.system THEN Ok(None)
    ELSE LET spec == get_column_specification(column, dp)
         IN  IF spec.ok THEN Ok(Some(spec.value)) ELSE spec

\* Mutant: the original message re-raised without the table and the column
WrappedMessageBare(tbl, column, ce) == ce.msg

WrappedMessage(tbl, column, ce) ==
    <<"(in table '">> \o tbl.name \o <<"', column '">> \o column.name \o <<"'): ">> \o ce.msg

\* The loop of _get_columns_specs over the columns still to visit
RECURSIVE columns_specs_loop(_, _, _, _)
columns_specs_loop(tbl, cols, partitions, dp) ==
    IF cols = <<>> THEN Ok(<<>>)
    ELSE LET column == Head(cols)
         IN  IF column.partition # partitions
             THEN columns_specs_loop(tbl, Tail(cols), partitions, dp)
             ELSE LET processed == visit_create_column(column, dp)
                  IN  IF ~processed.ok
                      THEN Raise(CompileError(WrappedMessage(tbl, column, Val(processed.err)),
                                              processed.err))
                      ELSE LET rest == columns_specs_loop(tbl, Tail(cols), partitions, dp)
                           IN  IF ~rest.ok THEN rest
                               ELSE IF processed.value = None THEN rest
                               ELSE Ok(<<Val(processed.value)>> \o rest.value)

\* Mutant: the partition test inverted (`is` for `is not`)
get_columns_specs_inverted(tbl, partitions, dp) ==
    columns_specs_loop(tbl, tbl.columns, ~partitions, dp)

get_columns_specs(tbl, partitions, dp) ==
    columns_specs_loop(tbl, tbl.columns, partitions, dp)

\* Mutant: a key for the orc format too
COMPRESSION_TBLPROPERTY_KEY_with_orc ==
    (<<"t","e","x","t","f","i","l","e">> :> "compressionType")
    @@ (<<"p","a","r","q","u","e","t">> :> "parquet.compress")
    @@ (<<"j","s","o","n">> :> "compressionType")
    @@ (<<"o","r","c">> :> "orc.compress")

COMPRESSION_TBLPROPERTY_KEY ==
    (<<"t","e","x","t","f","i","l","e">> :> "compressionType")
    @@ (<<"p","a","r","q","u","e","t">> :> "parquet.compress")
    @@ (<<"j","s","o","n">> :> "compressionType")

DefaultStoredAs == <<"P","A","R","Q","U","E","T">>

\* Mutant: no default for a missing stored_as option
resolve_stored_as_no_default(opts) ==
    IF opts.stored_as = None THEN <<>> ELSE Val(opts.stored_as)

\* stored_as = dialect_opts["stored_as"], PARQUET when falsy
resolve_stored_as(opts) ==
    IF ~Truthy(opts.stored_as) THEN DefaultStoredAs ELSE Val(opts.stored_as)

\* Mutant: the slash appended whatever the last character
normalize_location_always(location) == location \o <<"/">>

\* location += "/" if location[-1] != "/" else ""
normalize_location(location) ==
    IF location[Len(location)] # "/" THEN location \o <<"/">> ELSE location

\* The location branch of post_create_table: explicit option, derived from the
\* connection, or None
resolve_location(tbl) ==
    IF Truthy(tbl.opts.location) THEN Some(normalize_location(Val(tbl.opts.location)))
    ELSE IF tbl.bind # None
    THEN LET raw_connection == Val(tbl.bind)
             base_location == IF "s3_dir" \in DOMAIN raw_connection.kwargs
                              THEN raw_connection.kwargs["s3_dir"]
                              ELSE raw_connection.s3_staging_dir
             schema == IF Truthy(tbl.schema) THEN tbl.schema
                       ELSE Some(raw_connection.schema_name)
         IN  Some(Format(base_location) \o Format(schema) \o <<"/">> \o tbl.name \o <<"/">>)
    ELSE None

\* The compression branch: explicit option, connection default, or None
resolve_compression(tbl) ==
    IF Truthy(tbl.opts.compression) THEN tbl.opts.compression
    ELSE IF tbl.bind # None
    THEN IF "compression" \in DOMAIN Val(tbl.bind).kwargs
         THEN Val(tbl.bind).kwargs["compression"] ELSE None
    ELSE None

LocationRequiredInConnection ==
    <<"s3_dir or s3_staging_dir parameter is required in the connection string.">>
LocationRequiredInTable ==
    <<"You need to specify the storage location for the table ",
      "using the awsathena_location dialect keyword argument">>

\* post_create_table: [ok, value (the clauses), err, tblproperties (the caller's
\* tblproperties option as the call leaves it)]
post_create_table(tbl, dp) ==
    LET opts == tbl.opts
        comment_text == IF Truthy(tbl.comment)
                        THEN <<Clause("COMMENT", escape_comment(Val(tbl.comment), dp), <<>>, <<>>)>>
                        ELSE <<>>
        partition_columns_specs == get_columns_specs(tbl, TRUE, dp)
        stored_as == resolve_stored_as(opts)
        location == resolve_location(tbl)
        \* dialect_opts["tblproperties"] or dict(): the caller's dict itself when truthy
        aliased == Truthy(opts.tblproperties)
        tblproperties == IF aliased THEN Val(opts.tblproperties) ELSE <<>>
        compression == resolve_compression(tbl)
        fmt == Lower(stored_as)
        final_properties == IF Truthy(compression)
                            THEN DictSet(tblproperties, COMPRESSION_TBLPROPERTY_KEY[fmt],
                                         Upper(Val(compression)))
                            ELSE tblproperties
        failed(e) == [ok |-> FALSE, value |-> <<>>, err |-> Some(e),
                      tblproperties |-> opts.tblproperties]
    IN  IF ~partition_columns_specs.ok THEN failed(Val(partition_columns_specs.err))
        ELSE IF ~Truthy(location)
        THEN (IF tbl.bind # None
              THEN failed(CompileError(LocationRequiredInConnection, None))
              ELSE failed(CompileError(LocationRequiredInTable, None)))
        ELSE IF Truthy(compression) /\ fmt \notin DOMAIN COMPRESSION_TBLPROPERTY_KEY
        THEN failed(KeyError(fmt))
        ELSE [ok |-> TRUE,
              value |-> comment_text
                  \o (IF partition_columns_specs.value # <<>>
                      THEN <<Clause("PARTITIONED BY", <<>>, partition_columns_specs.value, <<>>)>>
                      ELSE <<>>)
                  \o (IF Truthy(opts.row_format)
                      THEN <<Clause("ROW FORMAT", Val(opts.row_format), <<>>, <<>>)>>
                      ELSE <<>>)
                  \o <<Clause("STORED AS", stored_as, <<>>, <<>>)>>
                  \o <<Clause("LOCATION", Val(location), <<>>, <<>>)>>
                  \o (IF final_properties # <<>>
                      THEN <<Clause("TBLPROPERTIES", <<>>, <<>>, final_properties)>>
                      ELSE <<>>),
              err |-> None,
              tblproperties |-> IF aliased THEN Some(final_properties)
                                ELSE opts.tblproperties]

\* The body of visit_create_table, given what its two calls return: the CREATE
\* EXTERNAL TABLE clause with the column list, then the clauses of post_create_table
create_table_text(tbl, columns_specs, post) ==
    IF ~columns_specs.ok
    THEN [ok |-> FALSE, value |-> <<>>, err |-> columns_specs.err,
          tblproperties |-> tbl.opts.tblproperties]
    ELSE IF ~post.ok THEN post
    ELSE [ok |-> TRUE,
          value |-> <<Clause("CREATE EXTERNAL TABLE", tbl.name, columns_specs.value, <<>>)>>
                        \o post.value,
          err |-> None,
          tblproperties |-> post.tblproperties]

visit_create_table(tbl, dp) ==
    create_table_text(tbl, get_columns_specs(tbl, FALSE, dp), post_create_table(tbl, dp))

------------------------------------------------------------------------------
(* AthenaDialect, reflection.  A remote type string is held one character  *)
(* per fragment; a generic type is named by its sqlalchemy class.  The text *)
(* of a remote error is held one word per fragment, the words being what    *)
(* single spaces separate.                                                  *)

TYPE_MAPPINGS ==
    (<<"b","o","o","l","e","a","n">> :> "BOOLEAN")
    @@ (<<"r","e","a","l">> :> "FLOAT")
    @@ (<<"f","l","o","a","t">> :> "FLOAT")
    @@ (<<"d","o","u","b","l","e">> :> "FLOAT")
    @@ (<<"t","i","n","y","i","n","t">> :> "INTEGER")
    @@ (<<"s","m","a","l","l","i","n","t">> :> "INTEGER")
    @@ (<<"i","n","t">> :> "INTEGER")
    @@ (<<"i","n","t","e","g","e","r">> :> "INTEGER")
    @@ (<<"b","i","g","i","n","t">> :> "BIGINT")
    @@ (<<"d","e","c","i","m","a","l">> :> "DECIMAL")
    @@ (<<"c","h","a","r">> :> "STRINGTYPE")
    @@ (<<"v","a","r","c","h","a","r">> :> "STRINGTYPE")
    @@ (<<"a","r","r","a","y">> :> "STRINGTYPE")
    @@ (<<"r","o","w">> :> "STRINGTYPE")
    @@ (<<"s","t","r","u","c","t">> :> "STRINGTYPE")
    @@ (<<"v","a","r","b","i","n","a","r","y">> :> "BINARY")
    @@ (<<"b","i","n","a","r","y">> :> "BINARY")
    @@ (<<"m","a","p">> :> "STRINGTYPE")
    @@ (<<"d","a","t","e">> :> "DATE")
    @@ (<<"t","i","m","e","s","t","a","m","p">> :> "TIMESTAMP")
    @@ (<<"s","t","r","i","n","g">> :> "TEXT")

\* Characters of the class [a-zA-Z]
Letters == {Lowers[i] : i \in 1..26} \cup {Uppers[i] : i \in 1..26}

\* The longest prefix of s made of letters
RECURSIVE LeadingLetters(_)
LeadingLetters(s) ==
    IF s = <<>> \/ Head(s) \notin Letters THEN <<>>
    ELSE <<Head(s)>> \o LeadingLetters(Tail(s))

\* _pattern_column_type, ^([a-zA-Z]+)($|[(<].+[)>]$), matched against s: the
\* letters are taken greedily and no shorter run can match, as what follows a
\* shorter run is a letter.  (Strings of the model hold no newline.)
pattern_column_type_match(s) ==
    LET group1 == LeadingLetters(s)
        rest == SubSeq(s, Len(group1) + 1, Len(s))
    IN  [matched |-> /\ group1 # <<>>
                     /\ \/ rest = <<>>
                        \/ /\ Len(rest) >= 3
                           /\ rest[1] \in {"(", "<"}
                           /\ rest[Len(rest)] \in {")", ">"},
         group1 |-> group1]

\* Mutant: the group returned whether or not the pattern matches
get_column_type_always_strips(type_) == pattern_column_type_match(type_).group1

\* _get_column_type: the match replaced by its first group, the string as it is
\* when the pattern does not match
get_column_type(type_) ==
    LET m == pattern_column_type_match(type_)
    IN  IF m.matched THEN m.group1 ELSE type_

\* _TYPE_MAPPINGS.get(self._get_column_type(column.type), NULLTYPE)
reflected_type(type_) ==
    LET key == get_column_type(type_)
    IN  IF key \in DOMAIN TYPE_MAPPINGS THEN TYPE_MAPPINGS[key] ELSE "NULLTYPE"

\* _pattern_data_catlog_exception searched in a text: the leftmost keyword that
\* some " not found." follows after at least one word, its group running
\* greedily to the last such " not found."
NotFoundAt(text, j) == j + 1 <= Len(text) /\ text[j] = "not" /\ text[j + 1] = "found."

pattern_data_catalog_exception_search(text) ==
    LET ends(i) == {j \in (i + 2)..Len(text) : NotFoundAt(text, j)}
        starts == {i \in DOMAIN text :
                      text[i] \in {"Database", "Namespace", "Table"} /\ ends(i) # {}}
    IN  IF starts = {} THEN None
        ELSE LET i == CHOOSE k \in starts : \A l \in starts : k <= l
                 j == CHOOSE k \in ends(i) : \A l \in ends(i) : l <= k
                 name == SubSeq(text, i + 1, j - 1)
             IN  Some([schema |-> IF text[i] = "Table" THEN None ELSE Some(name),
                       table |-> IF text[i] = "Table" THEN Some(name) ELSE None])

\* _retry_if_data_catalog_exception; exc is [type, text]
retry_if_data_catalog_exception(exc, schema, table_name) ==
    IF exc.type # "OperationalError" THEN FALSE
    ELSE LET match == pattern_data_catalog_exception_search(exc.text)
         IN  IF match # None /\ (\/ Val(match).schema = schema
                                  \/ Val(match).table = table_name)
             THEN FALSE
             ELSE TRUE

\* Errors of the execution client and of the reflection layer
ClientError(code) == [type |-> "ClientError", code |-> code]
PyAthenaError(type, cause) == [type |-> type, cause |-> cause]
NoSuchTableError(table_name, exc) ==
    [type |-> "NoSuchTableError", table_name |-> table_name, cause |-> Some(exc)]

\* What the catalog answers to GetTableMetadata for a table it does not hold
MetadataException == PyAthenaError("OperationalError", Some(ClientError("MetadataException")))

\* The result of a reflection method: its outcome, the remote requests it made
\* (each with the error the remote answered it with, None for an answer), the
\* cursors it opened as it leaves them, and the info_cache dicts as it leaves them
Reflected(result, requests, cursors, store) ==
    [ok |-> result.ok, value |-> result.value, err |-> result.err,
     requests |-> requests, cursors |-> cursors, store |-> store]

\* raw_connection.connection.cursor(): a cursor of the connection, open
connection_cursor == [closed |-> FALSE]

\* Leaving the scope of a cursor releases it
cursor_exit(cursor) == [cursor EXCEPT !.closed = TRUE]

\* Mutant: the cursor released when the block returns, and left open when it raises
with_cursor_exit_on_return(body) ==
    [ok |-> body.ok, value |-> body.value, err |-> body.err, requests |-> body.requests,
     cursors |-> <<IF body.ok THEN cursor_exit(connection_cursor) ELSE connection_cursor>>]

\* with raw_connection.connection.cursor() as cursor: the block runs with a new
\* cursor, whose scope is left when the block returns and when it raises
with_cursor(body) ==
    [ok |-> body.ok, value |-> body.value, err |-> body.err, requests |-> body.requests,
     cursors |-> <<cursor_exit(connection_cursor)>>]

\* The tables a catalog holds for a schema, over all pages of its listing
TablesOf(cat, schema_name) ==
    UNION {{cat[schema_name][token].tables[i] : i \in DOMAIN cat[schema_name][token].tables}
           : token \in DOMAIN cat[schema_name]}

\* cursor._get_table_metadata as the execution client answers it: the error of
\* this request when there is one, the metadata of the table, or the catalog's
\* MetadataException
cursor_get_table_metadata(cat, table_name, schema_name, remote_error) ==
    IF remote_error # None THEN Raise(Val(remote_error))
    ELSE IF \E m \in TablesOf(cat, schema_name) : m.name = table_name
    THEN Ok(CHOOSE m \in TablesOf(cat, schema_name) : m.name = table_name)
    ELSE Raise(MetadataException)

\* Mutant: the error code of the cause is not looked at
translate_error_any_code(table_name, exc) ==
    IF exc.type = "OperationalError"
    THEN IF exc.cause # None /\ Val(exc.cause).type = "ClientError"
         THEN NoSuchTableError(table_name, exc)
         ELSE exc
    ELSE exc

\* The except clause of _get_table
translate_error(table_name, exc) ==
    IF exc.type = "OperationalError"
    THEN IF /\ exc.cause # None
            /\ Val(exc.cause).type = "ClientError"
            /\ Val(exc.cause).code = "MetadataException"
         THEN NoSuchTableError(table_name, exc)
         ELSE exc
    ELSE exc

\* _get_table without its decorator, given the client's answer
get_table_result(table_name, schema_name, response) ==
    [ok |-> response.ok, value |-> response.value,
     err |-> IF response.ok THEN None
             ELSE Some(translate_error(table_name, Val(response.err))),
     requests |-> <<[op |-> "get_table_metadata", table_name |-> Some(table_name),
                     schema_name |-> schema_name, next_token |-> None,
                     err |-> response.err]>>]

\* schema if schema else raw_connection.schema_name
resolve_schema(conn, schema) == IF Truthy(schema) THEN Val(schema) ELSE conn.schema_name

get_table_body(cat, conn, table_name, schema, remote_error) ==
    with_cursor(get_table_result(table_name, resolve_schema(conn, schema),
                                 cursor_get_table_metadata(cat, table_name,
                                                           resolve_schema(conn, schema),
                                                           remote_error)))

\* The error of the execution client when a listing request fails
ListingError == PyAthenaError("OperationalError", Some(ClientError("ThrottlingException")))

\* Mutant: each response put before the tables collected so far
extend_listing_prepending(request, tables, rest) ==
    [ok |-> rest.ok, value |-> IF rest.ok THEN rest.value \o tables ELSE <<>>,
     err |-> rest.err, requests |-> <<request>> \o rest.requests]

\* tables.extend(response) ahead of what the rest of the loop collects
extend_listing(request, tables, rest) ==
    [ok |-> rest.ok, value |-> IF rest.ok THEN tables \o rest.value ELSE <<>>,
     err |-> rest.err, requests |-> <<request>> \o rest.requests]

\* The while loop of _get_tables from request number n on; request number
\* fail_at raises (0: none does)
RECURSIVE list_loop(_, _, _, _, _)
list_loop(cat, schema_name, next_token, n, fail_at) ==
    LET request(err) == [op |-> "list_table_metadata", table_name |-> None,
                         schema_name |-> schema_name, next_token |-> next_token,
                         err |-> err]
        response == cat[schema_name][next_token]
    IN  IF n = fail_at
        THEN [ok |-> FALSE, value |-> <<>>, err |-> Some(ListingError),
              requests |-> <<request(Some(ListingError))>>]
        ELSE IF ~Truthy(response.next_token)
        THEN [ok |-> TRUE, value |-> response.tables, err |-> None,
              requests |-> <<request(None)>>]
        ELSE extend_listing(request(None), response.tables,
                            list_loop(cat, schema_name, response.next_token, n + 1, fail_at))

get_tables_body(cat, conn, schema, fail_at) ==
    with_cursor(list_loop(cat, resolve_schema(conn, schema), None, 1, fail_at))

\* Mutant: the memo keyed by the function and the table name alone
cache_key_without_schema(name, table_name, schema) == <<name, table_name, None>>

\* The key reflection.cache memoizes under: the function's name, its string
\* arguments and its keyword arguments other than info_cache
cache_key(name, table_name, schema) == <<name, table_name, schema>>

\* @reflection.cache around a method, given what the method returns when run:
\* without info_cache the method runs; with it, the memo answers when it holds
\* the key, and the method's return value is memoized otherwise (a raise is not)
reflection_cache(key, info_cache, store, fetched) ==
    IF info_cache = None THEN Reflected(fetched, fetched.requests, fetched.cursors, store)
    ELSE IF key \in DOMAIN store[Val(info_cache)]
    THEN Reflected(Ok(store[Val(info_cache)][key]), <<>>, <<>>, store)
    ELSE IF fetched.ok
    THEN Reflected(fetched, fetched.requests, fetched.cursors,
                   [store EXCEPT ![Val(info_cache)] = (key :> fetched.value) @@ @])
    ELSE Reflected(fetched, fetched.requests, fetched.cursors, store)

get_table(cat, conn, store, table_name, schema, info_cache, remote_error) ==
    reflection_cache(cache_key("_get_table", Some(table_name), schema), info_cache, store,
                     get_table_body(cat, conn, table_name, schema, remote_error))

get_tables(cat, conn, store, schema, info_cache, fail_at) ==
    reflection_cache(cache_key("_get_tables", None, schema), info_cache, store,
                     get_tables_body(cat, conn, schema, fail_at))

\* The value of a result replaced, when there is one
Returning(r, value) == IF r.ok THEN [r EXCEPT !.value = value] ELSE r

\* Mutant: the names of all tables, whatever their type
NamesOfAnyType(tables, table_type) == [i \in DOMAIN tables |-> tables[i].name]

\* [t.name for t in tables if t.table_type == table_type]
NamesOfType(tables, table_type) ==
    LET selected == SelectSeq(tables, LAMBDA t : t.table_type = table_type)
    IN  [i \in DOMAIN selected |-> selected[i].name]

get_table_names(cat, conn, store, schema, info_cache, fail_at) ==
    Returning(get_tables(cat, conn, store, schema, info_cache, fail_at),
              NamesOfType(get_tables(cat, conn, store, schema, info_cache, fail_at).value,
                          "EXTERNAL_TABLE"))

get_view_names(cat, conn, store, schema, info_cache, fail_at) ==
    Returning(get_tables(cat, conn, store, schema, info_cache, fail_at),
              NamesOfType(get_tables(cat, conn, store, schema, info_cache, fail_at).value,
                          "VIRTUAL_VIEW"))

get_table_comment(cat, conn, store, table_name, schema, info_cache, remote_error) ==
    Returning(get_table(cat, conn, store, table_name, schema, info_cache, remote_error),
              [text |-> get_table(cat, conn, store, table_name, schema, info_cache,
                                  remote_error).value.comment])

get_table_options(cat, conn, store, table_name, schema, info_cache, remote_error) ==
    Returning(get_table(cat, conn, store, table_name, schema, info_cache, remote_error),
              [awsathena_location |->
                   get_table(cat, conn, store, table_name, schema, info_cache,
                             remote_error).value.location,
               awsathena_compression |->
                   get_table(cat, conn, store, table_name, schema, info_cache,
                             remote_error).value.compression])

NoDialectOptions == [k \in {} |-> TRUE]

\* Mutant: every descriptor marked as a partition column
column_descriptor_always_partition(column, partition) ==
    [name |-> column.name, type |-> reflected_type(column.type), nullable |-> TRUE,
     default |-> None, comment |-> column.comment,
     dialect_options |-> ("awsathena_partition" :> TRUE)]

\* One dict of get_columns; a regular column has no dialect_options item, held
\* here as the empty mapping
column_descriptor(column, partition) ==
    [name |-> column.name, type |-> reflected_type(column.type), nullable |-> TRUE,
     default |-> None, comment |-> column.comment,
     dialect_options |-> IF partition THEN ("awsathena_partition" :> TRUE)
                         ELSE NoDialectOptions]

columns_specs(metadata) ==
    [i \in DOMAIN metadata.columns |-> column_descriptor(metadata.columns[i], FALSE)]
        \o [i \in DOMAIN metadata.partition_keys |->
                column_descriptor(metadata.partition_keys[i], TRUE)]

get_columns(cat, conn, store, table_name, schema, info_cache, remote_error) ==
    Returning(get_table(cat, conn, store, table_name, schema, info_cache, remote_error),
              columns_specs(get_table(cat, conn, store, table_name, schema, info_cache,
                                      remote_error).value))

\* Mutant: every error of column reflection taken for a missing table
has_table_result_catch_all(r) ==
    IF r.ok THEN [r EXCEPT !.value = (r.value # <<>>)]
    ELSE [r EXCEPT !.ok = TRUE, !.value = FALSE, !.err = None]

\* The try statement of has_table, given what get_columns returns
has_table_result(r) ==
    IF r.ok THEN [r EXCEPT !.value = (r.value # <<>>)]
    ELSE IF Val(r.err).type = "NoSuchTableError"
    THEN [r EXCEPT !.ok = TRUE, !.value = FALSE, !.err = None]
    ELSE r

\* has_table calls get_columns without its keyword arguments: no info_cache
has_table(cat, conn, store, table_name, schema, info_cache, remote_error) ==
    has_table_result(get_columns(cat, conn, store, table_name, schema, None, remote_error))

------------------------------------------------------------------------------
(* Descriptors the caller can construct *)

S3BucketPath == <<"s","3",":","/","/","b","/","e">>
S3StagingDir == <<"s","3",":","/","/","s","/">>
S3Dir == <<"s","3",":","/","/","k","/">>

ColumnNames == <<<<"a">>, <<"b">>, <<"c">>, <<"d">>, <<"e">>>>

IntegerType == SqlType("INTEGER", None)

ColumnTypes ==
    {IntegerType, SqlType("DATE", None), SqlType("TIME", None),
     SqlType("CHAR", None), SqlType("NCHAR", None),
     SqlType("VARCHAR", None), SqlType("NVARCHAR", None), SqlType("VARCHAR", Some(5)),
     SqlType("VARCHAR", Some(0))}

\* sqltypes.Numeric(precision, scale) and sqltypes.DECIMAL(precision, scale)
DecimalType(kind, precision, scale) ==
    [kind |-> kind, length |-> None, precision |-> precision, scale |-> scale]

DecimalTypes ==
    {DecimalType(kind, precision, scale) :
        kind \in {"NUMERIC", "DECIMAL"},
        precision \in {None, Some(0), Some(10)},
        scale \in {None, Some(0), Some(2)}}

\* What a column is besides its name: type, partition flag, system flag
ColumnKinds ==
    [type : ColumnTypes, partition : BOOLEAN, system : {FALSE}]
        \cup [type : {IntegerType}, partition : BOOLEAN, system : {TRUE}]

MakeColumn(i, kind, comment) ==
    [name |-> ColumnNames[i], type |-> kind.type, partition |-> kind.partition,
     system |-> kind.system, comment |-> comment]

ColumnLists ==
    UNION {{[i \in 1..n |-> MakeColumn(i, kinds[i], None)] : kinds \in [1..n -> ColumnKinds]}
           : n \in 0..MaxCols}

NoOptions ==
    [compression |-> None, location |-> None, row_format |-> None,
     stored_as |-> None, tblproperties |-> None]

EmptyKwargs == [k \in {} |-> None]

Connections ==
    {[s3_staging_dir |-> None, schema_name |-> <<"d">>, kwargs |-> EmptyKwargs],
     [s3_staging_dir |-> Some(S3StagingDir), schema_name |-> <<"d">>, kwargs |-> EmptyKwargs],
     [s3_staging_dir |-> None, schema_name |-> <<"d">>,
      kwargs |-> ("s3_dir" :> Some(S3Dir))],
     [s3_staging_dir |-> Some(S3StagingDir), schema_name |-> <<"d">>,
      kwargs |-> ("compression" :> Some(<<"g","z","i","p">>))],
     [s3_staging_dir |-> Some(S3StagingDir), schema_name |-> <<"d">>,
      kwargs |-> ("s3_dir" :> None) @@ ("compression" :> None)]}

Locations == {None, Some(<<>>), Some(S3BucketPath), Some(S3BucketPath \o <<"/">>)}

StoredAsOptions ==
    {None, Some(<<"P","a","r","q","u","e","t">>), Some(<<"T","E","X","T","F","I","L","E">>),
     Some(<<"j","s","o","n">>), Some(<<"O","R","C">>)}

CompressionOptions == {None, Some(<<"s","n","a","p","p","y">>)}

TblProperties ==
    {None, Some(<<>>),
     Some(<< <<"a", <<"b">>>> >>),
     Some(<< <<"parquet.compress", <<"G","Z","I","P">>>>, <<"a", <<"b">>>> >>),
     Some(<< <<"a", <<"b">>>>, <<"compressionType", <<"L","Z","O">>>> >>)}

TwoColumns ==
    <<MakeColumn(1, [type |-> IntegerType, partition |-> FALSE, system |-> FALSE], None),
      MakeColumn(2, [type |-> SqlType("DATE", None), partition |-> TRUE, system |-> FALSE], None)>>

(* Remote catalogs and the arguments of the reflection methods *)

RemoteColumn(name, type_, comment) == [name |-> name, type |-> type_, comment |-> comment]

TableMetadata(name, table_type, columns, partition_keys, comment) ==
    [name |-> name, table_type |-> table_type, columns |-> columns,
     partition_keys |-> partition_keys, comment |-> comment,
     location |-> Some(S3BucketPath \o <<"/">> \o name), compression |-> None]

\* An external table with regular columns and a partition key
TableT ==
    TableMetadata(<<"t">>, "EXTERNAL_TABLE",
                  <<RemoteColumn(<<"a">>, <<"i","n","t">>, None),
                    RemoteColumn(<<"b">>, <<"d","e","c","i","m","a","l","(","1","0",",","2",")">>,
                                 Some(<<"c">>))>>,
                  <<RemoteColumn(<<"c">>, <<"s","t","r","i","n","g">>, None)>>,
                  Some(<<"c">>))

\* An external table with a partition key only
TableU ==
    TableMetadata(<<"u">>, "EXTERNAL_TABLE", <<>>,
                  <<RemoteColumn(<<"d">>, <<"g","e","o","m","e","t","r","y">>, None)>>, None)

\* A view, and a table of a type that is neither, which has no column at all
ViewV ==
    TableMetadata(<<"v">>, "VIRTUAL_VIEW",
                  <<RemoteColumn(<<"a">>, <<"a","r","r","a","y","<","i","n","t",">">>, None)>>,
                  <<>>, None)
TableM == TableMetadata(<<"m">>, "MANAGED_TABLE", <<>>, <<>>, None)

\* A view that no listing reaches
ViewW == TableMetadata(<<"w">>, "VIRTUAL_VIEW", <<>>, <<>>, None)

\* The table of the same name in the other schema
OtherT ==
    TableMetadata(<<"t">>, "EXTERNAL_TABLE",
                  <<RemoteColumn(<<"z">>, <<"b","i","g","i","n","t">>, None)>>, <<>>, None)

\* One response of list_table_metadata
Page(tables, next_token) == [tables |-> tables, next_token |-> next_token]

\* The listings of the default schema: for each pagination token the response to
\* it, the first request carrying no token; a listing ends at the first response
\* with a null or empty token, whatever the remote would answer to that token
Listings ==
    {(None :> Page(<<>>, None)),
     (None :> Page(<<ViewV>>, Some(<<"1">>)))
         @@ (Some(<<"1">>) :> Page(<<>>, Some(<<"2">>)))
         @@ (Some(<<"2">>) :> Page(<<TableM, TableU, TableT>>, Some(<<>>)))
         @@ (Some(<<>>) :> Page(<<ViewW>>, None))}

Catalogs ==
    {(<<"d">> :> listing) @@ (<<"s">> :> (None :> Page(<<OtherT>>, None))) :
        listing \in Listings}

\* raw_connection: the schema a call without schema falls back to
ReflectConnection == [schema_name |-> <<"d">>]

CacheIds == {"uow1", "uow2"}

\* info_cache as a caller passes it: absent, or the dict of a unit of work
CacheArgs == {None} \cup {Some(c) : c \in CacheIds}
SchemaArgs == {None, Some(<<"s">>)}
\* Table names asked for: each is held by some catalogs and schemas, not by others
TableNameArgs == {<<"t">>, <<"m">>}

\* What one GetTableMetadata request can fail with instead of being answered
RemoteErrors ==
    {PyAthenaError("OperationalError", Some(ClientError("ThrottlingException"))),
     PyAthenaError("OperationalError", None),
     PyAthenaError("OperationalError", Some([type |-> "EndpointConnectionError"])),
     PyAthenaError("DatabaseError", Some(ClientError("MetadataException")))}

\* The listing request that fails: none, the first, the second
FailPoints == 0..2

EmptyDict == [k \in {} |-> None]

NoCall == [op |-> "none"]

\* Remote type strings: a word followed by up to MaxSuffixLen other characters,
\* and the type strings of the catalogs
BaseWords ==
    {<<>>, <<"i","n","t">>, <<"I","N","T">>, <<"d","e","c","i","m","a","l">>,
     <<"a","r","r","a","y">>, <<"g","e","o","m","e","t","r","y">>}
SuffixChars == {"(", ")", "<", ">", "1", " ", "i"}
Suffixes == UNION {[1..n -> SuffixChars] : n \in 0..MaxSuffixLen}
TypeStrings ==
    {word \o suffix : word \in BaseWords, suffix \in Suffixes}
        \cup {c.type : c \in {TableT.columns[1], TableT.columns[2], TableT.partition_keys[1],
                               ViewV.columns[1]}}

\* Errors handed to _retry_if_data_catalog_exception, and the names queried
ErrorTexts ==
    {<<kw, name, "not", "found.">> : kw \in {"Table", "Database", "Namespace", "View"},
                                     name \in {"t", "s", "x"}}
        \cup {<<"Query", "failed:", "Table", "t", "not", "found.", "Aborting.">>,
              <<"Access", "denied">>}
SqlalchemyErrors ==
    {[type |-> type, text |-> text] : type \in {"OperationalError", "ProgrammingError"},
                                      text \in ErrorTexts}
QueriedSchemas == {None, Some(<<"s">>)}
QueriedTables == {None, Some(<<"t">>)}

\* No reflection call made: the state the compiler's behaviours keep
ReflectionIdle ==
    /\ catalog = (<<"d">> :> (None :> Page(<<>>, None)))
    /\ info_caches = [c \in CacheIds |-> EmptyDict]
    /\ fetches = EmptyDict
    /\ last = NoCall
    /\ ncalls = 0
    /\ open_cursors = 0

\* Tables that differ in their columns
InitColumns ==
    /\ \E columns \in ColumnLists :
           table = [name |-> <<"e","v">>, schema |-> None, comment |-> None,
                    columns |-> columns, bind |-> None,
                    opts |-> [NoOptions EXCEPT !.location = Some(S3BucketPath)]]
    /\ double_percents = TRUE

\* Tables that differ in their options and in the connection they are bound to
InitOptions ==
    /\ \E location \in Locations, bind \in {None} \cup {Some(c) : c \in Connections},
          stored_as \in StoredAsOptions, compression \in CompressionOptions,
          tblproperties \in TblProperties, schema \in {None, Some(<<"m">>)},
          columns \in {<<>>, TwoColumns}, described \in BOOLEAN :
           table = [name |-> <<"e","v">>, schema |-> schema,
                    comment |-> IF described THEN Some(<<"c">>) ELSE None,
                    columns |-> columns, bind |-> bind,
                    opts |-> [compression |-> compression, location |-> location,
                              row_format |-> IF described THEN Some(<<"S","E","R","D","E">>)
                                             ELSE None,
                              stored_as |-> stored_as, tblproperties |-> tblproperties]]
    /\ double_percents = TRUE

\* Tables that differ in the precision and the scale of their numeric columns
InitDecimals ==
    /\ \E first \in DecimalTypes, second \in DecimalTypes, partition \in BOOLEAN :
           table = [name |-> <<"e","v">>, schema |-> None, comment |-> None,
                    columns |-> <<MakeColumn(1, [type |-> first, partition |-> FALSE,
                                                 system |-> FALSE], None),
                                  MakeColumn(2, [type |-> second, partition |-> partition,
                                                 system |-> FALSE], None)>>,
                    bind |-> None,
                    opts |-> [NoOptions EXCEPT !.location = Some(S3BucketPath)]]
    /\ double_percents = TRUE

\* Tables with a codec and a storage format, whose columns or location may fail too
InitFormats ==
    /\ \E type \in ColumnTypes, partition \in BOOLEAN, location \in {None, Some(S3BucketPath)},
          stored_as \in StoredAsOptions \ {None} :
           table = [name |-> <<"e","v">>, schema |-> None, comment |-> None,
                    columns |-> <<MakeColumn(1, [type |-> IntegerType, partition |-> FALSE,
                                                 system |-> FALSE], None),
                                  MakeColumn(2, [type |-> type, partition |-> partition,
                                                 system |-> FALSE], None)>>,
                    bind |-> None,
                    opts |-> [NoOptions EXCEPT !.location = location,
                                               !.stored_as = stored_as,
                                               !.compression = Some(<<"s","n","a","p","p","y">>)]]
    /\ double_percents = TRUE

CommentChars == {"\\", "'", "%", "x"}

Comments == UNION {[1..n -> CommentChars] : n \in 0..MaxCommentLen}

\* Tables that differ in their comments, under either placeholder style
InitComments ==
    /\ \E comment \in Comments, column_comment \in {None} \cup {Some(<<c>>) : c \in CommentChars} :
           table = [name |-> <<"e","v">>, schema |-> None, comment |-> Some(comment),
                    columns |-> <<MakeColumn(1, [type |-> IntegerType, partition |-> FALSE,
                                                 system |-> FALSE], column_comment)>>,
                    bind |-> None,
                    opts |-> [NoOptions EXCEPT !.location = Some(S3BucketPath)]]
    /\ double_percents \in BOOLEAN

Init ==
    /\ InitColumns \/ InitOptions \/ InitComments \/ InitDecimals \/ InitFormats
    /\ calls = <<>>
    /\ ReflectionIdle

------------------------------------------------------------------------------
(* Operations *)

\* One compilation of CREATE TABLE for the table: the call is logged with the
\* descriptor as passed; the caller's tblproperties dict is left as the call leaves it
VisitCreateTable ==
    /\ Len(calls) < MaxCompiles
    /\ LET r == visit_create_table(table, double_percents)
       IN  /\ calls' = Append(calls, [arg |-> table, ok |-> r.ok, text |-> r.value,
                                      err |-> r.err])
           /\ table' = [table EXCEPT !.opts.tblproperties = r.tblproperties]
    /\ UNCHANGED <<double_percents, reflection_vars>>

Next == VisitCreateTable

Spec == Init /\ [][Next]_vars

------------------------------------------------------------------------------
(* Reflection: the dialect's methods called against a remote catalog *)

\* The compiler's variables while the dialect reflects
DDLIdle ==
    /\ table = [name |-> <<"e","v">>, schema |-> None, comment |-> None, columns |-> <<>>,
                bind |-> None, opts |-> NoOptions]
    /\ double_percents = TRUE
    /\ calls = <<>>

InitReflect ==
    /\ catalog \in Catalogs
    /\ info_caches = [c \in CacheIds |-> EmptyDict]
    /\ fetches = EmptyDict
    /\ last = NoCall
    /\ ncalls = 0
    /\ open_cursors = 0
    /\ DDLIdle

\* One more fetch counted for a unit of work, a table name (None: the listing)
\* and a schema, by whether the remote answered
Counted(counts, event) ==
    IF event \in DOMAIN counts THEN [counts EXCEPT ![event] = @ + 1]
    ELSE (event :> 1) @@ counts

\* A call of a reflection method returns r: the call is recorded, the
\* info_cache dicts are left as the call leaves them, and the cursors it leaves
\* open stay open on the connection
Reflect(op, table_name, schema, info_cache, r) ==
    /\ last' = [op |-> op, table_name |-> table_name, schema |-> schema,
                info_cache |-> info_cache, ok |-> r.ok, value |-> r.value, err |-> r.err,
                requests |-> r.requests, cursors |-> r.cursors]
    /\ info_caches' = r.store
    /\ fetches' = IF r.requests = <<>> THEN fetches
                  ELSE Counted(fetches, <<info_cache, table_name, schema,
                                          r.requests[Len(r.requests)].err = None>>)
    /\ ncalls' = ncalls + 1
    /\ open_cursors' = open_cursors + Len(SelectSeq(r.cursors, LAMBDA c : ~c.closed))
    /\ UNCHANGED <<catalog, ddl_vars>>

GetTableNames ==
    /\ ncalls < MaxReflectCalls
    /\ \E schema \in SchemaArgs, info_cache \in CacheArgs, fail_at \in FailPoints :
           Reflect("get_table_names", None, schema, info_cache,
                   get_table_names(catalog, ReflectConnection, info_caches, schema, info_cache,
                                   fail_at))

GetViewNames ==
    /\ ncalls < MaxReflectCalls
    /\ \E schema \in SchemaArgs, info_cache \in CacheArgs, fail_at \in FailPoints :
           Reflect("get_view_names", None, schema, info_cache,
                   get_view_names(catalog, ReflectConnection, info_caches, schema, info_cache,
                                  fail_at))

GetTableComment ==
    /\ ncalls < MaxReflectCalls
    /\ \E table_name \in TableNameArgs, schema \in SchemaArgs, info_cache \in CacheArgs,
          remote_error \in {None} \cup {Some(e) : e \in RemoteErrors} :
           Reflect("get_table_comment", Some(table_name), schema, info_cache,
                   get_table_comment(catalog, ReflectConnection, info_caches, table_name, schema,
                                     info_cache, remote_error))

GetTableOptions ==
    /\ ncalls < MaxReflectCalls
    /\ \E table_name \in TableNameArgs, schema \in SchemaArgs, info_cache \in CacheArgs,
          remote_error \in {None} \cup {Some(e) : e \in RemoteErrors} :
           Reflect("get_table_options", Some(table_name), schema, info_cache,
                   get_table_options(catalog, ReflectConnection, info_caches, table_name, schema,
                                     info_cache, remote_error))

HasTable ==
    /\ ncalls < MaxReflectCalls
    /\ \E table_name \in TableNameArgs, schema \in SchemaArgs, info_cache \in CacheArgs,
          remote_error \in {None} \cup {Some(e) : e \in RemoteErrors} :
           Reflect("has_table", Some(table_name), schema, info_cache,
                   has_table(catalog, ReflectConnection, info_caches, table_name, schema,
                             info_cache, remote_error))

GetColumns ==
    /\ ncalls < MaxReflectCalls
    /\ \E table_name \in TableNameArgs, schema \in SchemaArgs, info_cache \in CacheArgs,
          remote_error \in {None} \cup {Some(e) : e \in RemoteErrors} :
           Reflect("get_columns", Some(table_name), schema, info_cache,
                   get_columns(catalog, ReflectConnection, info_caches, table_name, schema,
                               info_cache, remote_error))

NextReflect ==
    \/ GetTableNames
    \/ GetViewNames
    \/ GetTableComment
    \/ GetTableOptions
    \/ HasTable
    \/ GetColumns

SpecReflect == InitReflect /\ [][NextReflect]_vars

------------------------------------------------------------------------------
(* The dialect's helpers, each applied once to an input of the model *)

InitHelpers ==
    /\ ReflectionIdle
    /\ DDLIdle

\* The type of one column of get_columns (lines 540-542, 552-554)
ReflectType ==
    /\ last = NoCall
    /\ \E type_ \in TypeStrings :
           last' = [op |-> "reflected_type", type_ |-> type_,
                    value |-> reflected_type(type_)]
    /\ UNCHANGED <<catalog, info_caches, fetches, ncalls, open_cursors, ddl_vars>>

RetryIfDataCatalogException ==
    /\ last = NoCall
    /\ \E exc \in SqlalchemyErrors, schema \in QueriedSchemas, table_name \in QueriedTables :
           last' = [op |-> "_retry_if_data_catalog_exception", exc |-> exc,
                    schema |-> schema, table_name |-> table_name,
                    value |-> retry_if_data_catalog_exception(exc, schema, table_name)]
    /\ UNCHANGED <<catalog, info_caches, fetches, ncalls, open_cursors, ddl_vars>>

NextHelpers == ReflectType \/ RetryIfDataCatalogException

SpecHelpers == InitHelpers /\ [][NextHelpers]_vars

------------------------------------------------------------------------------
(* Reading a compiled statement *)

OkCalls == {i \in DOMAIN calls : calls[i].ok}

\* The clauses of a text opened by keyword kw, in order
ClausesOf(text, kw) == SelectSeq(text, LAMBDA cl : cl.kw = kw)

HasClause(text, kw) == ClausesOf(text, kw) # <<>>

NamesOf(specs) == [i \in DOMAIN specs |-> specs[i].name]

\* Names in the main column list, and in the PARTITIONED BY clause (none without it)
MainNames(text) == NamesOf(text[1].specs)
PartitionNames(text) ==
    IF HasClause(text, "PARTITIONED BY")
    THEN NamesOf(ClausesOf(text, "PARTITIONED BY")[1].specs) ELSE <<>>

\* The entries of the TBLPROPERTIES block (none without it)
RenderedProperties(text) ==
    IF HasClause(text, "TBLPROPERTIES")
    THEN ClausesOf(text, "TBLPROPERTIES")[1].props ELSE <<>>

RenderedLocation(text) == ClausesOf(text, "LOCATION")[1].val

\* The caller's properties mapping as passed to a call (empty when None)
CallerProperties(tbl) ==
    IF tbl.opts.tblproperties = None THEN <<>> ELSE Val(tbl.opts.tblproperties)

SeqToSet(q) == {q[i] : i \in DOMAIN q}

------------------------------------------------------------------------------
(* C1: every column of a compiled table is rendered exactly once, in the main *)
(* column list when its partition flag is unset and in PARTITIONED BY when it *)
(* is set, each group in declaration order, no column in both or in neither.  *)
(* As stated (C1_EveryColumnOnce) this fails for a column for which           *)
(* process() returns None; it holds of the columns that yield text.           *)

ColumnsWhere(tbl, partition) ==
    NamesOf(SelectSeq(tbl.columns, LAMBDA c : c.partition = partition))

RenderedColumnsWhere(tbl, partition) ==
    NamesOf(SelectSeq(tbl.columns, LAMBDA c : c.partition = partition /\ ~c.system))

C1_EveryColumnOnce ==
    \A i \in OkCalls :
        /\ MainNames(calls[i].text) = ColumnsWhere(calls[i].arg, FALSE)
        /\ PartitionNames(calls[i].text) = ColumnsWhere(calls[i].arg, TRUE)

\* C1 as amended: the columns that are not system columns are rendered exactly once,
\* by partition flag and in declaration order; a system column is in neither group
C1_RenderedColumnsOnce ==
    \A i \in OkCalls :
        /\ MainNames(calls[i].text) = RenderedColumnsWhere(calls[i].arg, FALSE)
        /\ PartitionNames(calls[i].text) = RenderedColumnsWhere(calls[i].arg, TRUE)
        /\ SeqToSet(MainNames(calls[i].text)) \cap SeqToSet(PartitionNames(calls[i].text)) = {}
        /\ \A c \in SeqToSet(calls[i].arg.columns) :
               c.system => c.name \notin SeqToSet(MainNames(calls[i].text))
                                         \cup SeqToSet(PartitionNames(calls[i].text))

C1_Witness ==
    \E i \in OkCalls :
        /\ MainNames(calls[i].text) # <<>>
        /\ PartitionNames(calls[i].text) # <<>>
        /\ Len(calls[i].arg.columns) >= 2

------------------------------------------------------------------------------
(* C2: a table with no explicit location option and no staging directory     *)
(* available from a bound connection (no connection, or a connection whose    *)
(* s3_dir and s3_staging_dir are unset) fails to compile with a CompileError  *)
(* and yields no LOCATION clause.                                             *)

\* No staging-directory value can be had from the table's connection
NoStagingDirectory(tbl) ==
    \/ tbl.bind = None
    \/ /\ ~Truthy(Val(tbl.bind).s3_staging_dir)
       /\ \/ "s3_dir" \notin DOMAIN Val(tbl.bind).kwargs
          \/ ~Truthy(Val(tbl.bind).kwargs["s3_dir"])

C2_NoLocationFails ==
    \A i \in DOMAIN calls :
        (~Truthy(calls[i].arg.opts.location) /\ NoStagingDirectory(calls[i].arg))
            => /\ ~calls[i].ok
               /\ Val(calls[i].err).type = "CompileError"

------------------------------------------------------------------------------
(* C3: a column of type CHAR, NCHAR, VARCHAR or NVARCHAR with no length set  *)
(* makes the compilation fail with a CompileError; no type keyword is        *)
(* emitted for such a column.                                                 *)

StringKinds == {"CHAR", "NCHAR", "VARCHAR", "NVARCHAR"}

IsUnboundedString(column) ==
    column.type.kind \in StringKinds /\ column.type.length = None

C3_StringTypesNeedLength ==
    \A i \in DOMAIN calls :
        (\E c \in SeqToSet(calls[i].arg.columns) : ~c.system /\ IsUnboundedString(c))
            => /\ ~calls[i].ok
               /\ Val(calls[i].err).type = "CompileError"

------------------------------------------------------------------------------
(* C4: compiling leaves the table descriptor unchanged: after each call the  *)
(* table, its options and its tblproperties mapping equal what was passed.    *)

\* The descriptor as call i left it: what the next call is passed, or the table now
DescriptorAfter(i) == IF i < Len(calls) THEN calls[i + 1].arg ELSE table

C4_DescriptorUnchanged ==
    \A i \in DOMAIN calls : DescriptorAfter(i) = calls[i].arg

------------------------------------------------------------------------------
(* C5: compiling the same table descriptor twice in a row yields identical   *)
(* SQL text (and a failed compilation fails again the same way).              *)

C5_CompileTwiceSameText ==
    \A i \in DOMAIN calls :
        i < Len(calls) =>
            /\ calls[i + 1].ok = calls[i].ok
            /\ calls[i + 1].text = calls[i].text
            /\ calls[i + 1].err = calls[i].err

\* Two compilations of a table with a caller-supplied mapping and a codec: the
\* first one wrote the compression entry into the caller's mapping
C5_Witness ==
    /\ Len(calls) >= 2
    /\ calls[1].ok /\ calls[2].ok
    /\ Truthy(calls[1].arg.opts.tblproperties)
    /\ Truthy(calls[1].arg.opts.compression)
    /\ calls[2].arg # calls[1].arg

------------------------------------------------------------------------------
(* C6: in every compiled text the table-level clauses come in the order      *)
(* COMMENT, PARTITIONED BY, ROW FORMAT, STORED AS, LOCATION, TBLPROPERTIES;   *)
(* the optional ones appear only when the table has a comment, a partition    *)
(* column, a row_format option, a non-empty property set; STORED AS and       *)
(* LOCATION appear exactly once, STORED AS being PARQUET without the option.  *)

\* The codec a table's compilation has to use: the table's compression option when
\* set, otherwise the connection's default, otherwise none
ExpectedCodec(tbl) ==
    IF tbl.opts.compression \notin {None, Some(<<>>)} THEN tbl.opts.compression
    ELSE IF tbl.bind # None /\ "compression" \in DOMAIN Val(tbl.bind).kwargs
    THEN Val(tbl.bind).kwargs["compression"]
    ELSE None

HasCodec(tbl) == ExpectedCodec(tbl) \notin {None, Some(<<>>)}

ClauseOrder ==
    <<"COMMENT", "PARTITIONED BY", "ROW FORMAT", "STORED AS", "LOCATION", "TBLPROPERTIES">>

Rank(kw) == CHOOSE r \in DOMAIN ClauseOrder : ClauseOrder[r] = kw

C6_ClauseOrder ==
    \A i \in OkCalls :
        LET text == calls[i].text
            tbl == calls[i].arg
        IN  /\ text[1].kw = "CREATE EXTERNAL TABLE"
            /\ \A j \in 2..Len(text) : text[j].kw \in SeqToSet(ClauseOrder)
            /\ \A j, k \in 2..Len(text) : j < k => Rank(text[j].kw) < Rank(text[k].kw)
            /\ Len(ClausesOf(text, "STORED AS")) = 1
            /\ Len(ClausesOf(text, "LOCATION")) = 1
            /\ HasClause(text, "COMMENT") => tbl.comment \notin {None, Some(<<>>)}
            /\ HasClause(text, "PARTITIONED BY")
                   => \E c \in SeqToSet(tbl.columns) : c.partition
            /\ HasClause(text, "ROW FORMAT") => tbl.opts.row_format \notin {None, Some(<<>>)}
            /\ HasClause(text, "TBLPROPERTIES")
                   => /\ ClausesOf(text, "TBLPROPERTIES")[1].props # <<>>
                      /\ CallerProperties(tbl) # <<>> \/ HasCodec(tbl)
            /\ tbl.opts.stored_as = None
                   => ClausesOf(text, "STORED AS")[1].val = <<"P","A","R","Q","U","E","T">>

\* A compiled text that holds all six clauses, of a table without the stored_as option
C6_Witness ==
    \E i \in OkCalls :
        /\ \A r \in DOMAIN ClauseOrder : HasClause(calls[i].text, ClauseOrder[r])
        /\ Len(calls[i].text) = 7
        /\ calls[i].arg.opts.stored_as = None

------------------------------------------------------------------------------
(* C7: an explicit location L renders as L when it ends with "/" and as L    *)
(* followed by one "/" otherwise; the rendered location always ends with     *)
(* "/", also when derived from the connection, and normalizing it again      *)
(* changes nothing.                                                           *)

EndsWithSlash(s) == s # <<>> /\ s[Len(s)] = "/"

IsExplicit(location) == location \notin {None, Some(<<>>)}

C7_LocationTrailingSlash ==
    \A i \in OkCalls :
        LET L == calls[i].arg.opts.location
            rendered == RenderedLocation(calls[i].text)
        IN  /\ EndsWithSlash(rendered)
            /\ IsExplicit(L) /\ EndsWithSlash(Val(L)) => rendered = Val(L)
            /\ IsExplicit(L) /\ ~EndsWithSlash(Val(L)) => rendered = Val(L) \o <<"/">>
            /\ normalize_location(rendered) = rendered

\* An explicit location without the trailing slash was compiled
C7_Witness ==
    \E i \in OkCalls :
        /\ IsExplicit(calls[i].arg.opts.location)
        /\ ~EndsWithSlash(Val(calls[i].arg.opts.location))

------------------------------------------------------------------------------
(* C8: the codec is the table's compression option when set, otherwise the   *)
(* connection's default, otherwise none.  With a codec and a storage format  *)
(* (lowercased, PARQUET when unspecified) among textfile, json, parquet, the  *)
(* TBLPROPERTIES block holds key = UPPERCASE(codec), the key being            *)
(* compressionType for textfile and json and parquet.compress for parquet;    *)
(* without a codec no entry is added.                                         *)

\* The property key the claim names for each storage format option of the model
ExpectedKey(stored_as) ==
    CASE stored_as = None -> "parquet.compress"
      [] stored_as = Some(<<"P","a","r","q","u","e","t">>) -> "parquet.compress"
      [] stored_as = Some(<<"T","E","X","T","F","I","L","E">>) -> "compressionType"
      [] stored_as = Some(<<"j","s","o","n">>) -> "compressionType"

\* The codecs of the model in upper case
ExpectedUpper(codec) ==
    CASE codec = <<"s","n","a","p","p","y">> -> <<"S","N","A","P","P","Y">>
      [] codec = <<"g","z","i","p">> -> <<"G","Z","I","P">>

C8_CompressionEntry ==
    \A i \in OkCalls :
        LET tbl == calls[i].arg
            props == RenderedProperties(calls[i].text)
        IN  /\ HasCodec(tbl)
                => <<ExpectedKey(tbl.opts.stored_as), ExpectedUpper(Val(ExpectedCodec(tbl)))>>
                       \in SeqToSet(props)
            /\ ~HasCodec(tbl) => props = CallerProperties(tbl)

\* Compiled with the textfile format: a codec taken from the connection's default
C8_Witness ==
    \E i \in OkCalls :
        /\ HasCodec(calls[i].arg)
        /\ calls[i].arg.opts.compression = None
        /\ calls[i].arg.opts.stored_as = Some(<<"T","E","X","T","F","I","L","E">>)

------------------------------------------------------------------------------
(* C9: the TBLPROPERTIES block lists the caller's properties in the insertion *)
(* order of the mapping, and a synthesized compression entry is the last      *)
(* entry of the block, for every caller-supplied mapping.  As stated          *)
(* (C9_CompressionEntryLast) this fails for a mapping that already holds the  *)
(* compression key before its last position: the entry stays where the key    *)
(* was.                                                                       *)

KeysOf(d) == [i \in DOMAIN d |-> d[i][1]]

CompressionEntry(tbl) ==
    <<ExpectedKey(tbl.opts.stored_as), ExpectedUpper(Val(ExpectedCodec(tbl)))>>

\* The caller's entries other than one under the compression key, in insertion order
OtherEntries(d, key) == SelectSeq(d, LAMBDA e : e[1] # key)

C9_CompressionEntryLast ==
    \A i \in OkCalls :
        LET tbl == calls[i].arg
            props == RenderedProperties(calls[i].text)
        IN  HasCodec(tbl)
                => /\ props[Len(props)] = CompressionEntry(tbl)
                   /\ OtherEntries(props, CompressionEntry(tbl)[1])
                          = OtherEntries(CallerProperties(tbl), CompressionEntry(tbl)[1])

\* C9 as amended: the block lists the caller's keys in insertion order; the
\* compression entry is the last entry when the caller's mapping does not hold the
\* compression key, and otherwise takes the place of the caller's entry for that key
C9_CompressionEntryPlace ==
    \A i \in OkCalls :
        LET tbl == calls[i].arg
            caller == CallerProperties(tbl)
            props == RenderedProperties(calls[i].text)
        IN  /\ ~HasCodec(tbl) => props = caller
            /\ HasCodec(tbl) /\ CompressionEntry(tbl)[1] \notin SeqToSet(KeysOf(caller))
                   => props = caller \o <<CompressionEntry(tbl)>>
            /\ HasCodec(tbl) /\ CompressionEntry(tbl)[1] \in SeqToSet(KeysOf(caller))
                   => /\ KeysOf(props) = KeysOf(caller)
                      /\ \A j \in DOMAIN props :
                             props[j] = IF caller[j][1] = CompressionEntry(tbl)[1]
                                        THEN CompressionEntry(tbl) ELSE caller[j]

\* Compiled with a codec: a caller's mapping that holds the compression key first and
\* another key after it
C9_Witness ==
    \E i \in OkCalls :
        LET caller == CallerProperties(calls[i].arg)
        IN  /\ HasCodec(calls[i].arg)
            /\ Len(caller) >= 2
            /\ caller[1][1] = CompressionEntry(calls[i].arg)[1]
            /\ caller[1] # CompressionEntry(calls[i].arg)

------------------------------------------------------------------------------
(* C10: _escape_comment renders the comment between single quotes, with every *)
(* backslash doubled, every single quote replaced by backslash-quote, every   *)
(* percent sign doubled when the preparer doubles percents and left alone     *)
(* otherwise, and every other character copied unchanged, in order.           *)

\* What the claim makes of one character of the comment
EscapedChar(c, dp) ==
    CASE c = "\\" -> <<"\\", "\\">>
      [] c = "'" -> <<"\\", "'">>
      [] c = "%" -> IF dp THEN <<"%", "%">> ELSE <<"%">>
      [] OTHER -> <<c>>

RECURSIVE EscapedChars(_, _)
EscapedChars(value, dp) ==
    IF value = <<>> THEN <<>>
    ELSE EscapedChar(Head(value), dp) \o EscapedChars(Tail(value), dp)

ExpectedLiteral(value, dp) == <<"'">> \o EscapedChars(value, dp) \o <<"'">>

C10_EscapeComment ==
    \A i \in OkCalls :
        LET tbl == calls[i].arg
            text == calls[i].text
        IN  /\ tbl.comment \notin {None, Some(<<>>)}
                => ClausesOf(text, "COMMENT")[1].val
                       = ExpectedLiteral(Val(tbl.comment), double_percents)
            /\ \A j \in DOMAIN text[1].specs :
                   \A c \in SeqToSet(tbl.columns) :
                       (c.name = text[1].specs[j].name /\ c.comment # None)
                           => text[1].specs[j].comment
                                  = <<" COMMENT ">> \o ExpectedLiteral(Val(c.comment), double_percents)

\* Compiled under percent doubling: a comment with a backslash, a quote and a percent
C10_Witness ==
    \E i \in OkCalls :
        /\ double_percents
        /\ calls[i].arg.comment \notin {None, Some(<<>>)}
        /\ {"\\", "'", "%"} \subseteq SeqToSet(Val(calls[i].arg.comment))
        /\ calls[i].arg.columns # <<>>
        /\ calls[i].arg.columns[1].comment = Some(<<"'">>)

------------------------------------------------------------------------------
(* C11: a DECIMAL or NUMERIC column is rendered DECIMAL when its precision is *)
(* unset, whatever the scale; DECIMAL(p) when the precision is set and the    *)
(* scale is unset; DECIMAL(p, s) when both are set.                           *)

\* The column specifications of a text, main list then PARTITIONED BY
AllSpecsOf(text) ==
    text[1].specs \o (IF HasClause(text, "PARTITIONED BY")
                      THEN ClausesOf(text, "PARTITIONED BY")[1].specs ELSE <<>>)

\* The precisions and scales of the model in decimal digits
ExpectedDigits(n) ==
    CASE n = 0 -> <<"0">>
      [] n = 2 -> <<"2">>
      [] n = 10 -> <<"1", "0">>

ExpectedDecimal(type_) ==
    IF type_.precision = None THEN <<"DECIMAL">>
    ELSE IF type_.scale = None
    THEN <<"DECIMAL", "(">> \o ExpectedDigits(Val(type_.precision)) \o <<")">>
    ELSE <<"DECIMAL", "(">> \o ExpectedDigits(Val(type_.precision)) \o <<",", " ">>
             \o ExpectedDigits(Val(type_.scale)) \o <<")">>

C11_DecimalRendering ==
    \A i \in OkCalls :
        \A c \in SeqToSet(calls[i].arg.columns) :
            \A spec \in SeqToSet(AllSpecsOf(calls[i].text)) :
                (c.name = spec.name /\ c.type.kind \in {"DECIMAL", "NUMERIC"})
                    => spec.type = ExpectedDecimal(c.type)

\* Compiled: a NUMERIC column with a scale and no precision, next to a DECIMAL
\* column with both
C11_Witness ==
    \E i \in OkCalls :
        LET columns == calls[i].arg.columns
        IN  /\ Len(columns) = 2
            /\ columns[1].type = DecimalType("NUMERIC", None, Some(2))
            /\ columns[2].type = DecimalType("DECIMAL", Some(10), Some(2))
            /\ Len(AllSpecsOf(calls[i].text)) = 2

------------------------------------------------------------------------------
(* C19: with a codec resolved and a storage format that, lowercased, is not  *)
(* textfile, parquet or json, compiling CREATE TABLE ends in an error and    *)
(* yields no text; the error is the KeyError of the compression-key lookup,  *)
(* not a CompileError, and no TBLPROPERTIES is emitted.  As stated            *)
(* (C19_UnsupportedFormatKeyError) this fails when a CompileError is raised   *)
(* before the lookup is reached.                                              *)

SupportedFormats ==
    {<<"t","e","x","t","f","i","l","e">>, <<"p","a","r","q","u","e","t">>, <<"j","s","o","n">>}

UnsupportedFormat(tbl) ==
    /\ tbl.opts.stored_as \notin {None, Some(<<>>)}
    /\ Lower(Val(tbl.opts.stored_as)) \notin SupportedFormats

\* A column whose rendering raises: TIME, or VARCHAR / NVARCHAR with no length
FailingColumn(c) ==
    /\ ~c.system
    /\ \/ c.type.kind = "TIME"
       \/ c.type.kind \in {"VARCHAR", "NVARCHAR"} /\ c.type.length \in {None, Some(0)}

\* No location option and no connection to derive one from
LocationMissing(tbl) == tbl.opts.location \in {None, Some(<<>>)} /\ tbl.bind = None

C19_UnsupportedFormatKeyError ==
    \A i \in DOMAIN calls :
        (HasCodec(calls[i].arg) /\ UnsupportedFormat(calls[i].arg))
            => /\ ~calls[i].ok
               /\ calls[i].text = <<>>
               /\ Val(calls[i].err).type = "KeyError"

\* C19 as amended: the compilation fails and yields no text; the error is the
\* KeyError unless a column fails to render or the location is missing, which
\* raise a CompileError before the lookup
C19_UnsupportedFormatFails ==
    \A i \in DOMAIN calls :
        LET tbl == calls[i].arg
            earlier == LocationMissing(tbl) \/ \E c \in SeqToSet(tbl.columns) : FailingColumn(c)
        IN  (HasCodec(tbl) /\ UnsupportedFormat(tbl))
                => /\ ~calls[i].ok
                   /\ calls[i].text = <<>>
                   /\ Val(calls[i].err).type = (IF earlier THEN "CompileError" ELSE "KeyError")
                   /\ ~earlier => Val(calls[i].err).msg = Lower(Val(tbl.opts.stored_as))

\* Compiled with a codec and the ORC format: the KeyError, for a table whose columns
\* render and whose location is given
C19_Witness ==
    /\ \E i \in DOMAIN calls :
           /\ HasCodec(calls[i].arg) /\ UnsupportedFormat(calls[i].arg)
           /\ ~LocationMissing(calls[i].arg)
           /\ calls[i].arg.columns # <<>>
           /\ Val(calls[i].err).type = "KeyError"
    /\ Len(calls) = MaxCompiles

------------------------------------------------------------------------------
(* C20: when rendering a column raises a CompileError, _get_columns_specs    *)
(* raises a new CompileError whose message is the table name and the column  *)
(* name followed by the original message, with the original error as its     *)
(* cause; no column list is returned and the columns after the failing one   *)
(* are not rendered.                                                          *)

\* The error that rendering the type of a failing column raises
ExpectedColumnError(c) ==
    IF c.type.kind = "TIME"
    THEN [type |-> "CompileError", msg |-> <<"Data type ", "TIME", " is not supported">>,
          cause |-> None]
    ELSE [type |-> "CompileError", msg |-> NoLengthMessage(Some(c)), cause |-> None]

\* The failing columns in the order visit_create_table visits them: the main
\* list first, the partition columns after
FailingInVisitOrder(tbl) ==
    SelectSeq(tbl.columns, LAMBDA c : FailingColumn(c) /\ ~c.partition)
        \o SelectSeq(tbl.columns, LAMBDA c : FailingColumn(c) /\ c.partition)

C20_ColumnErrorWrapped ==
    \A i \in DOMAIN calls :
        LET tbl == calls[i].arg
            failing == FailingInVisitOrder(tbl)
        IN  failing # <<>>
                => /\ ~calls[i].ok
                   /\ calls[i].text = <<>>
                   /\ Val(calls[i].err).type = "CompileError"
                   /\ Val(calls[i].err).cause = Some(ExpectedColumnError(failing[1]))
                   /\ Val(calls[i].err).msg
                          = <<"(in table '">> \o tbl.name \o <<"', column '">>
                                \o failing[1].name \o <<"'): ">>
                                \o ExpectedColumnError(failing[1]).msg

\* Compiled: a table whose two columns both fail, differently
C20_Witness ==
    \E i \in DOMAIN calls :
        LET failing == FailingInVisitOrder(calls[i].arg)
        IN  /\ Len(failing) = 2
            /\ failing[1].type.kind # failing[2].type.kind
            /\ failing[1].name # calls[i].arg.columns[1].name
            /\ ~calls[i].ok

------------------------------------------------------------------------------
(* C12: every remote type string is mapped without error: a parameter suffix *)
(* in parentheses or angle brackets is stripped so that the base keyword,    *)
(* the leading letters, is looked up; a recognized lowercase base keyword    *)
(* maps to its generic type, any other string to NULLTYPE.  As stated         *)
(* (C12_TypeOfLeadingLetters) this fails for a string whose leading letters  *)
(* are followed by anything but a suffix the pattern accepts.                 *)

\* The generic types of the words of the model
ExpectedGeneric(base) ==
    CASE base = <<"i","n","t">> -> "INTEGER"
      [] base = <<"d","e","c","i","m","a","l">> -> "DECIMAL"
      [] base = <<"a","r","r","a","y">> -> "STRINGTYPE"
      [] base = <<"s","t","r","i","n","g">> -> "TEXT"
      [] OTHER -> "NULLTYPE"

SuffixOf(s) == SubSeq(s, Len(LeadingLetters(s)) + 1, Len(s))

\* Letters alone, or letters and a suffix that opens with ( or <, closes with ) or >
\* and holds at least one character between
WellFormedTypeString(s) ==
    /\ LeadingLetters(s) # <<>>
    /\ \/ SuffixOf(s) = <<>>
       \/ /\ Len(SuffixOf(s)) >= 3
          /\ Head(SuffixOf(s)) \in {"(", "<"}
          /\ SuffixOf(s)[Len(SuffixOf(s))] \in {")", ">"}

------------------------------------------------------------------------------
(* C13: _retry_if_data_catalog_exception returns False for an operational    *)
(* error exactly when its text names, as "Table X not found." or "Database / *)
(* Namespace X not found.", the queried table or the queried schema; for     *)
(* every queried pair, a schema or table name not given included, a text     *)
(* naming a different table or schema returns True.                           *)

Contains(text, words) ==
    \E i \in 1..(Len(text) - Len(words) + 1) : SubSeq(text, i, i + Len(words) - 1) = words

NamesQueriedTable(text, table_name) ==
    /\ table_name # None
    /\ Contains(text, <<"Table">> \o Val(table_name) \o <<"not", "found.">>)

NamesQueriedSchema(text, schema) ==
    /\ schema # None
    /\ \E kw \in {"Database", "Namespace"} :
           Contains(text, <<kw>> \o Val(schema) \o <<"not", "found.">>)

C13_NotFoundClassification ==
    (last.op = "_retry_if_data_catalog_exception" /\ last.exc.type = "OperationalError")
        => (last.value = FALSE
                <=> \/ NamesQueriedTable(last.exc.text, last.table_name)
                    \/ NamesQueriedSchema(last.exc.text, last.schema))

------------------------------------------------------------------------------
(* C14: get_table_names returns exactly the names of the listed tables whose *)
(* type is EXTERNAL_TABLE, get_view_names exactly those whose type is         *)
(* VIRTUAL_VIEW, each in the order of the remote listing; a table of another *)
(* type is in neither result and no entry is in both.                         *)

\* The schema a call without schema asks about
QueriedSchema(schema) == IF schema = None THEN <<"d">> ELSE Val(schema)

\* The remote listing of a schema from a token on, up to the response with a
\* null or empty token
RECURSIVE ListedFrom(_, _)
ListedFrom(listing, token) ==
    listing[token].tables
        \o (IF listing[token].next_token \in {None, Some(<<>>)} THEN <<>>
            ELSE ListedFrom(listing, listing[token].next_token))

Listed(schema) == ListedFrom(catalog[QueriedSchema(schema)], None)

C14_TablesAndViews ==
    (last.op \in {"get_table_names", "get_view_names"} /\ last.ok)
        => LET type == IF last.op = "get_table_names" THEN "EXTERNAL_TABLE"
                       ELSE "VIRTUAL_VIEW"
               listed == Listed(last.schema)
           IN  /\ last.value = NamesOf(SelectSeq(listed, LAMBDA t : t.table_type = type))
               /\ \A t \in SeqToSet(listed) :
                      t.name \in SeqToSet(last.value) <=> t.table_type = type

\* The tables of a listing of three pages that holds tables of all three types
C14_Witness ==
    /\ last.op = "get_table_names" /\ last.ok
    /\ Len(last.requests) = 3
    /\ last.value = << <<"u">>, <<"t">> >>
    /\ {t.table_type : t \in SeqToSet(Listed(last.schema))}
           = {"EXTERNAL_TABLE", "VIRTUAL_VIEW", "MANAGED_TABLE"}

------------------------------------------------------------------------------
(* C15: has_table returns False when column reflection raises                *)
(* NoSuchTableError; every other error that column reflection raises          *)
(* propagates unchanged.                                                      *)

\* The remote error that _get_table turns into NoSuchTableError
IsNotFound(e) ==
    /\ e.type = "OperationalError"
    /\ e.cause # None
    /\ Val(e.cause) = [type |-> "ClientError", code |-> "MetadataException"]

C15_HasTableErrors ==
    (last.op = "has_table" /\ last.requests[1].err # None)
        => IF IsNotFound(Val(last.requests[1].err))
           THEN last.ok /\ last.value = FALSE
           ELSE ~last.ok /\ last.err = last.requests[1].err

\* has_table after the remote failed with an error that is not the not-found one
C15_Witness ==
    /\ last.op = "has_table"
    /\ last.requests[1].err # None
    /\ Val(last.requests[1].err).type = "OperationalError"
    /\ ~IsNotFound(Val(last.requests[1].err))
    /\ ~last.ok

------------------------------------------------------------------------------
(* C16: get_columns returns one descriptor per regular column of the remote  *)
(* table followed by one per partition key, each group in remote order;      *)
(* every descriptor has nullable True and default None, and the partition    *)
(* dialect option is True exactly for the descriptors of partition keys.      *)

\* The remote metadata of the table a call asked about
RemoteTable(table_name, schema) ==
    CHOOSE m \in TablesOf(catalog, QueriedSchema(schema)) : m.name = Val(table_name)

IsPartitionDescriptor(d) ==
    /\ "awsathena_partition" \in DOMAIN d.dialect_options
    /\ d.dialect_options["awsathena_partition"] = TRUE

C16_ColumnDescriptors ==
    (last.op = "get_columns" /\ last.ok)
        => LET m == RemoteTable(last.table_name, last.schema)
               n == Len(m.columns)
           IN  /\ Len(last.value) = n + Len(m.partition_keys)
               /\ \A i \in DOMAIN last.value :
                      /\ last.value[i].nullable = TRUE
                      /\ last.value[i].default = None
                      /\ i <= n => /\ last.value[i].name = m.columns[i].name
                                   /\ ~IsPartitionDescriptor(last.value[i])
                      /\ i > n => /\ last.value[i].name = m.partition_keys[i - n].name
                                  /\ IsPartitionDescriptor(last.value[i])

\* The descriptors of a table with two regular columns and one partition key
C16_Witness ==
    /\ last.op = "get_columns" /\ last.ok
    /\ Len(last.value) = 3
    /\ IsPartitionDescriptor(last.value[3])
    /\ ~IsPartitionDescriptor(last.value[2])

------------------------------------------------------------------------------
(* C17: within one unit of work (calls that share an info_cache), any        *)
(* sequence of get_table_names and get_view_names calls for the same schema  *)
(* performs the paginated remote listing exactly once, later calls being     *)
(* answered from the memo; calls in another unit of work (another cache, or  *)
(* none) fetch again.  As stated (C17_ListingOnce) this fails when a listing  *)
(* raises: nothing is memoized and the next call lists again.                 *)

Count(event) == IF event \in DOMAIN fetches THEN fetches[event] ELSE 0

\* Fetches made for a unit of work, a table name (None: the listing) and a
\* schema: those the remote answered, and all of them
Completed(info_cache, table_name, schema) == Count(<<info_cache, table_name, schema, TRUE>>)
Started(info_cache, table_name, schema) ==
    Count(<<info_cache, table_name, schema, TRUE>>)
        + Count(<<info_cache, table_name, schema, FALSE>>)

C17_ListingOnce ==
    \A c \in CacheIds, schema \in SchemaArgs : Started(Some(c), None, schema) <= 1

\* A step that is a call of get_table_names or get_view_names
ListingCall == ncalls' = ncalls + 1 /\ last'.op \in {"get_table_names", "get_view_names"}

\* C17 as amended: in a unit of work at most one listing of a schema runs to
\* completion; once one has, every call is answered without a remote request;
\* until then, and in every call without info_cache, the call lists remotely
C17_ListingOnceCompleted ==
    /\ [](\A c \in CacheIds, schema \in SchemaArgs : Completed(Some(c), None, schema) <= 1)
    /\ [][ListingCall
             => IF /\ last'.info_cache # None
                   /\ Completed(last'.info_cache, None, last'.schema) = 1
                THEN last'.requests = <<>> /\ last'.ok
                ELSE last'.requests # <<>>]_vars

\* A call answered from the memo of its unit of work, after the one listing of
\* three requests that filled it
C17_Witness ==
    /\ last.op = "get_view_names" /\ last.ok
    /\ last.info_cache # None
    /\ last.requests = <<>>
    /\ last.value # <<>>
    /\ Completed(last.info_cache, None, last.schema) = 1
    /\ Started(last.info_cache, None, last.schema) = 1
    /\ Len(Listed(last.schema)) > 3

------------------------------------------------------------------------------
(* C18: within one unit of work, any sequence of get_columns,                *)
(* get_table_comment, get_table_options and has_table calls for the same     *)
(* table name and schema performs at most one successful remote              *)
(* get-table-metadata call; every later call is answered from the memo.       *)

C18_TableFetchedOnce ==
    \A c \in CacheIds, table_name \in TableNameArgs, schema \in SchemaArgs :
        Completed(Some(c), Some(table_name), schema) <= 1

------------------------------------------------------------------------------
(* C24: the literal produced by _escape_comment cannot be terminated early:   *)
(* between the opening and the closing quote every single quote is preceded   *)
(* by an odd number of consecutive backslashes, and the closing quote is      *)
(* preceded by an even number of consecutive backslashes.                     *)

\* The number of consecutive backslashes that end just before position i
RECURSIVE BackslashesBefore(_, _)
BackslashesBefore(lit, i) ==
    IF i > 1 /\ lit[i - 1] = "\\" THEN 1 + BackslashesBefore(lit, i - 1) ELSE 0

\* A literal whose first unescaped quote after the opening one is its last character
ClosedOnlyAtEnd(lit) ==
    /\ Len(lit) >= 2
    /\ lit[1] = "'"
    /\ lit[Len(lit)] = "'"
    /\ \A i \in 2..(Len(lit) - 1) :
           lit[i] = "'" => BackslashesBefore(lit, i) % 2 = 1
    /\ BackslashesBefore(lit, Len(lit)) % 2 = 0

\* The comment literals of a compiled statement: the table's and the columns'
CommentLiterals(text) ==
    {text[k].val : k \in {k \in DOMAIN text : text[k].kw = "COMMENT"}}
        \cup UNION {{Tail(text[k].specs[j].comment) :
                         j \in {j \in DOMAIN text[k].specs : text[k].specs[j].comment # <<>>}} :
                    k \in DOMAIN text}

C24_LiteralNotTerminatedEarly ==
    \A i \in OkCalls :
        \A lit \in CommentLiterals(calls[i].text) : ClosedOnlyAtEnd(lit)

\* Compiled: a table comment with a backslash-quote sequence that ends in a backslash,
\* next to a column whose comment is one backslash
C24_Witness ==
    \E i \in OkCalls :
        LET comment == calls[i].arg.comment
        IN  /\ comment = Some(<<"\\", "'", "\\">>)
            /\ calls[i].arg.columns[1].comment = Some(<<"\\">>)
            /\ Cardinality(CommentLiterals(calls[i].text)) = 2

------------------------------------------------------------------------------
(* C21: _get_table translates a remote operational error into                 *)
(* NoSuchTableError, with the remote error kept as its cause, exactly when    *)
(* the remote error's nested cause is a client error with error code          *)
(* MetadataException; every other remote error propagates from _get_table     *)
(* unchanged.                                                                 *)

\* The methods that return or raise what _get_table returns or raises
GetTableCallers == {"get_table_comment", "get_table_options", "get_columns"}

C21_NotFoundTranslation ==
    (last.op \in GetTableCallers /\ last.requests # <<>>)
        => LET remote == last.requests[1].err
           IN  IF remote = None THEN last.ok
               ELSE /\ ~last.ok
                    /\ IF IsNotFound(Val(remote))
                       THEN last.err = Some([type |-> "NoSuchTableError",
                                             table_name |-> Val(last.table_name),
                                             cause |-> remote])
                       ELSE last.err = remote

\* After a failed fetch for another name, a call raises NoSuchTableError for a
\* table the catalog does not hold
C21_Witness ==
    /\ last.op \in GetTableCallers
    /\ last.requests # <<>>
    /\ last.requests[1].err # None
    /\ IsNotFound(Val(last.requests[1].err))
    /\ ~last.ok
    /\ Val(last.err).type = "NoSuchTableError"
    /\ \E event \in DOMAIN fetches : event[2] # last.table_name /\ ~event[4]

------------------------------------------------------------------------------
(* C22: _get_tables issues its first list request with a null continuation    *)
(* token, passes to each following request exactly the token returned by the  *)
(* previous response, stops after the first response whose token is null or   *)
(* empty, and returns the concatenation of all received pages in request      *)
(* order; it ends at that response and issues no request after it.            *)

ListingOps == {"get_table_names", "get_view_names"}

\* The response the remote gave to request number k of the last call
ReceivedPage(k) == catalog[QueriedSchema(last.schema)][last.requests[k].next_token]

EndsListing(token) == token \in {None, Some(<<>>)}

\* The pages received for the requests 1..k, one after the other
RECURSIVE PagesUpTo(_)
PagesUpTo(k) == IF k = 0 THEN <<>> ELSE PagesUpTo(k - 1) \o ReceivedPage(k).tables

C22_Pagination ==
    (last.op \in ListingOps /\ last.requests # <<>>)
        => LET n == Len(last.requests)
               type == IF last.op = "get_table_names" THEN "EXTERNAL_TABLE"
                       ELSE "VIRTUAL_VIEW"
           IN  /\ last.requests[1].next_token = None
               /\ \A k \in 1..(n - 1) :
                      /\ last.requests[k].err = None
                      /\ ~EndsListing(ReceivedPage(k).next_token)
                      /\ last.requests[k + 1].next_token = ReceivedPage(k).next_token
               /\ IF last.requests[n].err = None
                  THEN /\ EndsListing(ReceivedPage(n).next_token)
                       /\ last.ok
                       /\ last.value
                              = NamesOf(SelectSeq(PagesUpTo(n), LAMBDA t : t.table_type = type))
                       /\ last.info_cache # None
                              => info_caches[Val(last.info_cache)]
                                            [<<"_get_tables", None, last.schema>>]
                                     = PagesUpTo(n)
                  ELSE ~last.ok /\ last.err = last.requests[n].err

\* A listing of three requests memoized: its second page is empty, its third
\* comes with an empty token, and the remote holds a page for that token
C22_Witness ==
    /\ last.op \in ListingOps /\ last.ok
    /\ last.info_cache # None
    /\ Len(last.requests) = 3
    /\ ReceivedPage(2).tables = <<>>
    /\ ReceivedPage(3).next_token = Some(<<>>)
    /\ Some(<<>>) \in DOMAIN catalog[QueriedSchema(last.schema)]
    /\ Len(PagesUpTo(3)) = 4

------------------------------------------------------------------------------
(* C23: has_table returns True for every table whose remote metadata fetch    *)
(* succeeds, including a table whose metadata has no regular columns and no   *)
(* partition keys; it returns False only when the table is not found.         *)
(* This fails: has_table returns False for a table the remote holds without   *)
(* columns, since it tests the list of column descriptors for emptiness.      *)

C23_HasTableOfFetchedTable ==
    last.op = "has_table"
        => /\ last.requests[1].err = None => (last.ok /\ last.value = TRUE)
           /\ (last.ok /\ last.value = FALSE)
                  => (/\ last.requests[1].err # None
                      /\ IsNotFound(Val(last.requests[1].err)))

------------------------------------------------------------------------------
(* C25: every cursor opened by a reflection call (_get_table, _get_tables) is *)
(* released before the call returns or raises: after any sequence of          *)
(* reflection calls, whether they succeed, raise NoSuchTableError, or          *)
(* propagate another remote error (also in the middle of pagination), no      *)
(* cursor opened by them remains open.                                        *)

ReflectionOps == ListingOps \cup GetTableCallers \cup {"has_table"}

C25_CursorsReleased ==
    /\ open_cursors = 0
    /\ last.op \in ReflectionOps
           => /\ \A i \in DOMAIN last.cursors : last.cursors[i].closed
              /\ last.requests # <<>> => last.cursors # <<>>

\* After a fetch that the remote failed, a listing raises at its second request:
\* the cursor it opened is closed
C25_Witness ==
    /\ last.op \in ListingOps
    /\ ~last.ok
    /\ Len(last.requests) = 2
    /\ last.requests[2].err # None
    /\ last.cursors = <<[closed |-> TRUE]>>
    /\ \E event \in DOMAIN fetches : event[2] # None /\ ~event[4]
    /\ open_cursors = 0

====
